---- MODULE Spec2Model ----
(***************************************************************************)
(* GestStock Pro: the ledger core of the MemStorage server.                *)
(*                                                                         *)
(* Specifications.  Spec: the MemStorage server, each request served as a  *)
(* whole, with failing writes and restarts.  SpecFlat: the flat-file       *)
(* server of server/index.ts with its clock.  SpecLists: the listings of   *)
(* MemStorage over collections with their timestamps in any order.         *)
(* SpecAsync: MemStorage between its awaits, with overlapping calls, the   *)
(* load at startup and crashes.  SpecTypes: the same typed movements on    *)
(* the flat-file server and, through the movement modal, on MemStorage.    *)
(*                                                                         *)
(* The model follows server/storage.ts (class MemStorage: two in-memory    *)
(* Maps, flushed to products.json and stock_movements.json after every     *)
(* mutation) and the Express routes of server/routes.ts that validate a    *)
(* request body with the drizzle-zod insert schemas of shared/schema.ts    *)
(* and then call the storage.  Each route handler is one action.           *)
(*                                                                         *)
(* Values.  A JavaScript value that may be null/undefined is a sequence of *)
(* length 0 (Null) or 1 (Some(v)).  A timestamp is <<"Date", t>> while it  *)
(* is a Date object and <<"string", t>> once JSON.stringify has turned it  *)
(* into its ISO string.  A Map is a function from its keys; ids are handed *)
(* out in increasing order, so ascending key order is insertion order.     *)
(* Of the descriptive string fields only the product's name is kept; the   *)
(* others (category, sku, description, reason, reference) are copied       *)
(* through by every operation in the same way and are left out.  No        *)
(* mutator of MemStorage branches on the clock, which stands still in      *)
(* Spec.                                                                   *)
(***************************************************************************)
EXTENDS Integers, Sequences, FiniteSets, TLC

VARIABLES
    products,        \* MemStorage.products : Map<string, Product>
    stockMovements,  \* MemStorage.stockMovements : Map<string, StockMovement>
    productsFile,    \* data/products.json
    movementsFile,   \* data/stock_movements.json
    now,             \* the wall clock read by new Date()
    uuids,           \* how many ids randomUUID() has handed out
    requests,        \* how many requests and restarts there have been
    failed,          \* how many fs.writeFile calls have failed
    last,            \* the last request served and the response it got
    calls            \* the async calls begun since the start, SpecAsync only

vars ==
    <<products, stockMovements, productsFile, movementsFile, now, uuids,
      requests, failed, last, calls>>

----------------------------------------------------------------------------
(* Bounds of the model. *)

MaxRequests == 2     \* requests and restarts in one run
MaxFailed == 1       \* fs.writeFile calls that fail in one run
MaxInput == 1        \* integers -1..MaxInput appear in request bodies
MaxQuantity == 2     \* a request is not issued once it would pass this stock

----------------------------------------------------------------------------
(* JavaScript values. *)

Null == <<>>
Some(v) == <<v>>

\* x is falsy: null, undefined or the number 0 (the left operand of `x || d`).
Falsy(x) == x = Null \/ x = Some(0)

EmptyMap == [k \in {} |-> 0]

MapSet(m, k, v) == [x \in DOMAIN m \cup {k} |-> IF x = k THEN v ELSE m[x]]

MapDelete(m, k) == [x \in DOMAIN m \ {k} |-> m[x]]

Min(S) == CHOOSE x \in S : \A y \in S : x <= y

\* Array.from(map.values()): the values in insertion order.
RECURSIVE MapValues(_)
MapValues(m) ==
    IF DOMAIN m = {} THEN <<>>
    ELSE LET k == Min(DOMAIN m)
         IN  <<m[k]>> \o MapValues(MapDelete(m, k))

\* new Date() at clock value t.
NewDate(t) == <<"Date", t>>

----------------------------------------------------------------------------
(* The files: absent, or the JSON text of an array. *)

Absent == [kind |-> "absent"]
JsonFile(arr) == [kind |-> "json", data |-> arr]

\* JSON.stringify of a timestamp field: a Date object is written as its ISO
\* string (Date.prototype.toJSON); a value that already is a string stays.
\* The other fields of these records (numbers, strings, null) are written
\* as they are.
ToJSON(v) == IF v[1] = "Date" THEN <<"string", v[2]>> ELSE v

StringifyProduct(p) == [p EXCEPT !.lastModified = ToJSON(@)]

StringifyMovement(m) == [m EXCEPT !.timestamp = ToJSON(@)]

\* JSON.stringify(array, null, 2) of the products / of the movements.
StringifyProducts(arr) == [i \in 1..Len(arr) |-> StringifyProduct(arr[i])]

StringifyMovements(arr) == [i \in 1..Len(arr) |-> StringifyMovement(arr[i])]

\* array.forEach(r => map.set(r.id, r)) from the first element on.
RECURSIVE SetAll(_, _)
SetAll(m, arr) ==
    IF arr = <<>> THEN m
    ELSE SetAll(MapSet(m, Head(arr).id, Head(arr)), Tail(arr))

----------------------------------------------------------------------------
(* MemStorage.  Its methods are operators on a store record s:             *)
(*   products, stockMovements, productsFile, movementsFile, uuids  the     *)
(*       state they read and write;                                        *)
(*   fault   which fs.writeFile call of this request fails (0: none);      *)
(*   writes  the fs.writeFile calls made so far by this request;           *)
(*   thrown  an exception is propagating (the awaiting caller rethrows);   *)
(*   ret     the value returned.                                           *)
(***************************************************************************)

NoFault == 0

\* fs.writeFile(file, text): the file holds text afterwards, or the call
\* rejects (the file could not be opened for writing) and the file is as
\* before.
WriteFile(s, file, text) ==
    LET n == s.writes + 1
    IN  IF s.fault = n
        THEN [s EXCEPT !.writes = n, !.thrown = TRUE]
        ELSE [s EXCEPT !.writes = n, ![file] = text]

\* A save that returns before the file is written.
saveProducts_NotAwaited(s) == [s EXCEPT !.writes = @ + 1]

saveProducts(s) ==
    WriteFile(s, "productsFile",
              JsonFile(StringifyProducts(MapValues(s.products))))

saveMovements(s) ==
    WriteFile(s, "movementsFile",
              JsonFile(StringifyMovements(MapValues(s.stockMovements))))

\* fs.readFile + JSON.parse inside try/catch: the parsed array, or Null when
\* either throws (file absent, text unparsable).
ReadArray(file) == IF file.kind = "json" THEN Some(file.data) ELSE Null

\* A load with both collections in one try block: when the products cannot
\* be read the movements are not read either.
loadData_OneTry(s) ==
    LET ps == ReadArray(s.productsFile)
        ms == ReadArray(s.movementsFile)
    IN  IF ps = Null THEN s
        ELSE [s EXCEPT
               !.products = SetAll(@, ps[1]),
               !.stockMovements = IF ms = Null THEN @ ELSE SetAll(@, ms[1])]

\* loadData: each collection in its own try block.
loadData(s) ==
    LET ps == ReadArray(s.productsFile)
        ms == ReadArray(s.movementsFile)
    IN  [s EXCEPT
          !.products = IF ps = Null THEN @ ELSE SetAll(@, ps[1]),
          !.stockMovements = IF ms = Null THEN @ ELSE SetAll(@, ms[1])]

\* randomUUID(): an id no earlier call returned.
randomUUID(s) == s.uuids + 1

createProduct(s, insertProduct, t) ==
    LET id == randomUUID(s)
        product == [id |-> id,
                    name |-> insertProduct.name[1],
                    lastModified |-> NewDate(t),
                    minStock |-> IF Falsy(insertProduct.minStock) THEN Null
                                 ELSE insertProduct.minStock,
                    quantity |-> IF Falsy(insertProduct.quantity) THEN 0
                                 ELSE insertProduct.quantity[1]]
        s1 == [s EXCEPT !.uuids = id, !.products = MapSet(@, id, product)]
        s2 == saveProducts(s1)
    IN  IF s2.thrown THEN s2 ELSE [s2 EXCEPT !.ret = Some(product)]

\* An update that spreads the stored product over the updates, and that
\* stores the updates as a new product when the id is unknown.
updateProduct_Upsert(s, id, updates, t) ==
    LET existingProduct == IF id \in DOMAIN s.products THEN s.products[id]
                           ELSE [id |-> id, name |-> "n", quantity |-> 0,
                                 minStock |-> Null]
        updatedProduct ==
            [lastModified |-> NewDate(t)] @@ existingProduct @@ updates
        s1 == [s EXCEPT !.products = MapSet(@, id, updatedProduct)]
        s2 == saveProducts(s1)
    IN  IF s2.thrown THEN s2 ELSE [s2 EXCEPT !.ret = Some(updatedProduct)]

\* { ...existingProduct, ...updates, lastModified: new Date() }
updateProduct(s, id, updates, t) ==
    IF id \notin DOMAIN s.products THEN [s EXCEPT !.ret = Null]
    ELSE LET existingProduct == s.products[id]
             updatedProduct ==
                 [lastModified |-> NewDate(t)] @@ updates @@ existingProduct
             s1 == [s EXCEPT !.products = MapSet(@, id, updatedProduct)]
             s2 == saveProducts(s1)
         IN  IF s2.thrown THEN s2 ELSE [s2 EXCEPT !.ret = Some(updatedProduct)]

\* A delete that empties the Map when it finds the product.
deleteProduct_Clear(s, id) ==
    LET deleted == id \in DOMAIN s.products
        s1 == IF deleted THEN [s EXCEPT !.products = EmptyMap] ELSE s
        s2 == IF deleted THEN saveProducts(s1) ELSE s1
    IN  IF s2.thrown THEN s2 ELSE [s2 EXCEPT !.ret = deleted]

\* A delete that also drops the movements of the product.
deleteProduct_Cascade(s, id) ==
    LET deleted == id \in DOMAIN s.products
        kept == {m \in DOMAIN s.stockMovements :
                    s.stockMovements[m].productId # id}
        s1 == [s EXCEPT !.products = MapDelete(@, id),
                        !.stockMovements = [m \in kept |-> @[m]]]
        s2 == IF deleted THEN saveProducts(s1) ELSE s1
    IN  IF s2.thrown THEN s2 ELSE [s2 EXCEPT !.ret = deleted]

deleteProduct(s, id) ==
    LET deleted == id \in DOMAIN s.products
        s1 == [s EXCEPT !.products = MapDelete(@, id)]
        s2 == IF deleted THEN saveProducts(s1) ELSE s1
    IN  IF s2.thrown THEN s2 ELSE [s2 EXCEPT !.ret = deleted]

\* A lookup that parses products.json instead of reading the Map.
getProduct_FromFile(s, id) ==
    LET ps == ReadArray(s.productsFile)
        onDisk == IF ps = Null THEN EmptyMap ELSE SetAll(EmptyMap, ps[1])
    IN  IF id \in DOMAIN onDisk THEN Some(onDisk[id]) ELSE Null

getProduct(s, id) ==
    IF id \in DOMAIN s.products THEN Some(s.products[id]) ELSE Null

\* new Date(v).getTime() of a Date or of the ISO string of one.
getTime(v) == v[2]

\* A comparator with its operands exchanged: it sorts oldest first.
compareTime_Ascending(a, b, field) == getTime(a[field]) - getTime(b[field])

\* (a, b) => new Date(b.field).getTime() - new Date(a.field).getTime()
compareTime(a, b, field) == getTime(b[field]) - getTime(a[field])

\* Array.prototype.sort with that comparator.  The sort is stable: x goes
\* behind every element that does not compare greater than it.
RECURSIVE InsertSorted(_, _, _)
InsertSorted(sorted, x, field) ==
    IF sorted = <<>> THEN <<x>>
    ELSE IF compareTime(Head(sorted), x, field) <= 0
         THEN <<Head(sorted)>> \o InsertSorted(Tail(sorted), x, field)
         ELSE <<x>> \o sorted

RECURSIVE SortByTime(_, _)
SortByTime(arr, field) ==
    IF arr = <<>> THEN <<>>
    ELSE InsertSorted(SortByTime(SubSeq(arr, 1, Len(arr) - 1), field),
                      arr[Len(arr)], field)

getProducts(s) == SortByTime(MapValues(s.products), "lastModified")

getStockMovements(s) == SortByTime(MapValues(s.stockMovements), "timestamp")

\* The quantity createStockMovement writes back: the sum for 'add', the
\* difference held at 0 by Math.max for every other type.
newQuantityOf(product, insertMovement) ==
    IF insertMovement.type = "add"
    THEN product.quantity + insertMovement.quantity
    ELSE IF 0 > product.quantity - insertMovement.quantity THEN 0
         ELSE product.quantity - insertMovement.quantity

\* The auto-delete without its test of the type.
autoDelete_AnyType(newQuantity, insertMovement) == newQuantity = 0

\* The condition of the auto-delete.
autoDelete(newQuantity, insertMovement) ==
    newQuantity = 0 /\ insertMovement.type = "remove"

\* The movement is stored and flushed first; the product is updated after.
createStockMovement(s, insertMovement, t) ==
    LET id == randomUUID(s)
        movement == [id |-> id,
                     productId |-> insertMovement.productId,
                     type |-> insertMovement.type,
                     movementType |-> insertMovement.movementType,
                     quantity |-> insertMovement.quantity,
                     unitPrice |-> IF Falsy(insertMovement.unitPrice)
                                   THEN Null ELSE insertMovement.unitPrice,
                     totalPrice |-> IF Falsy(insertMovement.totalPrice)
                                    THEN Null ELSE insertMovement.totalPrice,
                     timestamp |-> NewDate(t)]
        s1 == [s EXCEPT !.uuids = id,
                        !.stockMovements = MapSet(@, id, movement)]
        s2 == saveMovements(s1)
        pid == insertMovement.productId
        product == getProduct(s2, pid)
        newQuantity == newQuantityOf(product[1], insertMovement)
        s3 == updateProduct(s2, pid, [quantity |-> newQuantity], t)
        s4 == IF s3.thrown THEN s3
              ELSE IF autoDelete(newQuantity, insertMovement)
                   THEN deleteProduct(s3, pid)
                   ELSE s3
    IN  IF s2.thrown THEN s2
        ELSE IF product = Null THEN [s2 EXCEPT !.ret = Some(movement)]
             ELSE IF s4.thrown THEN s4 ELSE [s4 EXCEPT !.ret = Some(movement)]

\* products.reduce((sum, p) => sum + p.quantity, 0)
RECURSIVE SumQuantity(_)
SumQuantity(arr) ==
    IF arr = <<>> THEN 0 ELSE Head(arr).quantity + SumQuantity(Tail(arr))

\* p.minStock || 5
lowStockThreshold(p) == IF Falsy(p.minStock) THEN 5 ELSE p.minStock[1]

getStats(s) ==
    LET all == MapValues(s.products)
        isLow(p) == p.quantity > 0 /\ p.quantity <= lowStockThreshold(p)
        isOut(p) == p.quantity = 0
    IN  [totalProducts |-> Len(all),
         totalStock |-> SumQuantity(all),
         lowStock |-> Cardinality({i \in 1..Len(all) : isLow(all[i])}),
         outOfStock |-> Cardinality({i \in 1..Len(all) : isOut(all[i])})]

----------------------------------------------------------------------------
(* The routes.  A body field that the request leaves out is Null.  The     *)
(* insert schemas require name (products) and productId, type,             *)
(* movementType, quantity (movements); a column with a default or without  *)
(* notNull is optional; an integer column accepts every integer and a text *)
(* column every string.  parse() returns the body without absent fields.   *)
(***************************************************************************)

\* insertProductSchema.parse(body) does not throw.
ValidProduct(body) == body.name # Null

\* A validation that also looks the product up and rejects an unknown id.
ValidMovement_KnownProduct(body) ==
    /\ body.type # Null /\ body.movementType # Null /\ body.quantity # Null
    /\ body.productId \in DOMAIN products

\* insertStockMovementSchema.parse(body) does not throw.
ValidMovement(body) ==
    body.type # Null /\ body.movementType # Null /\ body.quantity # Null

\* What insertStockMovementSchema.parse returns for a valid body.
ParsedMovement(body) ==
    [productId |-> body.productId, type |-> body.type[1],
     movementType |-> body.movementType[1], quantity |-> body.quantity[1],
     unitPrice |-> body.unitPrice, totalPrice |-> body.totalPrice]

\* POST /api/products
postProduct(s, body, t) ==
    IF ~ValidProduct(body) THEN [s EXCEPT !.status = 400]
    ELSE LET r == createProduct(s, body, t)
         IN  [r EXCEPT !.status = IF r.thrown THEN 500 ELSE 201]

\* PATCH /api/products/:id
patchProduct(s, id, updates, t) ==
    LET r == updateProduct(s, id, updates, t)
    IN  [r EXCEPT !.status = IF r.thrown THEN 500
                             ELSE IF r.ret = Null THEN 404 ELSE 200]

\* DELETE /api/products/:id
deleteProductRoute(s, id) ==
    LET r == deleteProduct(s, id)
    IN  [r EXCEPT !.status = IF r.thrown THEN 500
                             ELSE IF r.ret THEN 204 ELSE 404]

\* POST /api/stock-movements
postStockMovement(s, body, t) ==
    IF ~ValidMovement(body) THEN [s EXCEPT !.status = 400]
    ELSE LET r == createStockMovement(s, ParsedMovement(body), t)
         IN  [r EXCEPT !.status = IF r.thrown THEN 500 ELSE 201]

----------------------------------------------------------------------------
(* Requests and faults the environment can produce.  last records the     *)
(* request served last: the route, the id it addressed, its body, the      *)
(* write that failed, the product stored under that id before, and the     *)
(* status code of the response.                                            *)

\* The id of a product an earlier run created, and an id of no product.
SeedId == 0

UnknownId == -1

InputInts == -1..MaxInput

OptInts == {Null} \cup {Some(i) : i \in InputInts}

\* Bodies of POST /api/products: every quantity without minStock, one
\* with a minStock, one with minStock 0, and one without the required name.
ProductBodies ==
    [name : {Some("n")}, quantity : OptInts, minStock : {Null}]
      \cup {[name |-> Some("n"), quantity |-> Null, minStock |-> Some(MaxInput)],
            [name |-> Some("n"), quantity |-> Some(1), minStock |-> Some(0)],
            [name |-> Null, quantity |-> Null, minStock |-> Null]}

\* Bodies of PATCH /api/products/:id, validated by
\* insertProductSchema.partial(): no field, one field, both fields.
UpdateBodies ==
    {EmptyMap}
      \cup {[quantity |-> q] : q \in InputInts}
      \cup {[minStock |-> Some(0)],
            [quantity |-> 1, minStock |-> Null]}

\* Bodies of POST /api/stock-movements: add and remove with every quantity,
\* a type and a movementType outside the documented vocabularies, bodies
\* without a required field, and bodies with a unitPrice, with and without
\* a totalPrice.
MovementBodies ==
    [productId : DOMAIN products \cup {UnknownId},
     type : {Some("add"), Some("remove")},
     movementType : {Some("sale")},
     quantity : {Some(i) : i \in InputInts},
     unitPrice : {Null}, totalPrice : {Null}]
      \cup [productId : DOMAIN products \cup {UnknownId},
            type : {Some("sale")}, movementType : {Some("sale")},
            quantity : {Some(1)}, unitPrice : {Null}, totalPrice : {Null}]
      \cup [productId : DOMAIN products \cup {UnknownId},
            type : {Some("add")}, movementType : {Some("bogus")},
            quantity : {Some(1)}, unitPrice : {Null}, totalPrice : {Null}]
      \cup [productId : {UnknownId},
            type : {Some("add")}, movementType : {Null},
            quantity : {Some(1)}, unitPrice : {Null}, totalPrice : {Null}]
      \cup [productId : DOMAIN products,
            type : {Some("remove")}, movementType : {Some("sale")},
            quantity : {Null}, unitPrice : {Null}, totalPrice : {Null}]
      \cup [productId : {UnknownId},
            type : {Some("add")}, movementType : {Some("purchase")},
            quantity : {Some(1)}, unitPrice : {Some(MaxInput)},
            totalPrice : {Null, Some(MaxInput)}]

Faults == IF failed < MaxFailed THEN 0..3 ELSE {NoFault}

Request(fault) ==
    [products |-> products, stockMovements |-> stockMovements,
     productsFile |-> productsFile, movementsFile |-> movementsFile,
     uuids |-> uuids, fault |-> fault, writes |-> 0, thrown |-> FALSE,
     ret |-> Null, status |-> 0]

\* The fault named happened, and the stock stays within the model's bounds.
Admissible(r, fault) ==
    /\ r.thrown <=> fault # NoFault
    /\ \A id \in DOMAIN r.products :
          r.products[id].quantity \in -MaxQuantity..MaxQuantity

Respond(r, op, id, body, fault) ==
    /\ requests < MaxRequests
    /\ requests' = requests + 1
    /\ failed' = IF r.thrown THEN failed + 1 ELSE failed
    /\ Admissible(r, fault)
    /\ products' = r.products
    /\ stockMovements' = r.stockMovements
    /\ productsFile' = r.productsFile
    /\ movementsFile' = r.movementsFile
    /\ uuids' = r.uuids
    /\ last' = [op |-> op, status |-> r.status, id |-> id, body |-> body,
                fault |-> fault, prior |-> getProduct(Request(fault), id)]
    /\ UNCHANGED <<now, calls>>

----------------------------------------------------------------------------
(* Actions. *)

\* What an earlier run left in products.json after creating one product.
SeedProducts(q) ==
    <<[id |-> SeedId, lastModified |-> <<"string", 0>>, minStock |-> Null,
       name |-> "n", quantity |-> q]>>

\* The server has started and loadData() has finished, on an empty data
\* directory or on one where an earlier run persisted one product.
Init ==
    /\ \/ productsFile = Absent
       \/ \E q \in 0..MaxQuantity : productsFile = JsonFile(SeedProducts(q))
    /\ movementsFile = Absent
    /\ products = SetAll(EmptyMap, IF productsFile = Absent THEN <<>>
                                   ELSE productsFile.data)
    /\ stockMovements = EmptyMap
    /\ now = 0
    /\ uuids = 0
    /\ requests = 0
    /\ failed = 0
    /\ last = [op |-> "start", status |-> 0, id |-> UnknownId, body |-> Null,
               fault |-> NoFault, prior |-> Null]
    /\ calls = <<>>

PostProduct ==
    \E body \in ProductBodies, fault \in Faults :
        Respond(postProduct(Request(fault), body, now),
                   "POST /api/products", UnknownId, body, fault)

PatchProduct ==
    \E id \in DOMAIN products \cup {UnknownId}, updates \in UpdateBodies,
       fault \in Faults :
        Respond(patchProduct(Request(fault), id, updates, now),
                "PATCH /api/products/:id", id, updates, fault)

DeleteProduct ==
    \E id \in DOMAIN products \cup {UnknownId}, fault \in Faults :
        Respond(deleteProductRoute(Request(fault), id),
                "DELETE /api/products/:id", id, Null, fault)

PostStockMovement ==
    \E body \in MovementBodies, fault \in Faults :
        Respond(postStockMovement(Request(fault), body, now),
                   "POST /api/stock-movements", body.productId, body, fault)

\* The process stops and is started again: new MemStorage(), loadData().
Restart ==
    LET r == loadData([Request(NoFault) EXCEPT !.products = EmptyMap,
                                              !.stockMovements = EmptyMap])
    IN  Respond(r, "restart", UnknownId, Null, NoFault)

Next ==
    \/ PostProduct
    \/ PatchProduct
    \/ DeleteProduct
    \/ PostStockMovement
    \/ Restart

Spec == Init /\ [][Next]_vars

----------------------------------------------------------------------------
(* The flat-file server of server/index.ts.  It keeps no collection in     *)
(* memory: every handler reads products.json and movements.json, changes   *)
(* the arrays and writes them back, all synchronously.  It validates       *)
(* nothing: a record is the request body with the server's fields laid     *)
(* over it, so a record is a function from the names of the fields it has. *)
(* An id is `product_${Date.now()}` or `movement_${Date.now()}`, written   *)
(* <<"product", t>> and <<"movement", t>>; the clock counts milliseconds.  *)
(* SpecFlat uses productsFile, movementsFile, now, requests (the steps     *)
(* taken, a tick of the clock included) and last; the variables of         *)
(* MemStorage stay as they start.                                          *)
(***************************************************************************)

MaxSteps == 4        \* requests and clock ticks in one run of SpecFlat

Has(o, k) == k \in DOMAIN o

\* o[k] || d for a field that holds a number when it is there.
OrElse(o, k, d) == IF Has(o, k) /\ o[k] # 0 THEN o[k] ELSE d

readJSON(file) == IF file.kind = "json" THEN file.data ELSE <<>>

writeJSON(data) == JsonFile(data)

\* products.findIndex(p => p.id === id), counted from 1; 0 when there is none.
findIndex(arr, id) ==
    LET found == {i \in 1..Len(arr) : arr[i].id = id}
    IN  IF found = {} THEN 0 ELSE Min(found)

\* new Date().toISOString()
toISOString(t) == <<"string", t>>

\* 24 * 60 * 60 * 1000
DayMs == 86400000

\* A test without the window: every movement made so far is recent.
isRecent_AnyAge(m, t) == m.createdAt[2] <= t

\* new Date(m.createdAt) >= new Date(Date.now() - 24 * 60 * 60 * 1000)
isRecent(m, t) == m.createdAt[2] >= t - DayMs

\* GET /api/stats
flatStats(pf, mf, t) ==
    LET ps == readJSON(pf)
        ms == readJSON(mf)
        isLow(p) == Has(p, "quantity") /\ p.quantity <= OrElse(p, "minStock", 0)
        RECURSIVE total(_)
        total(arr) == IF arr = <<>> THEN 0
                      ELSE OrElse(Head(arr), "quantity", 0) + total(Tail(arr))
    IN  [totalProducts |-> Len(ps),
         totalStock |-> total(ps),
         lowStockCount |-> Cardinality({i \in 1..Len(ps) : isLow(ps[i])}),
         recentMovements |->
             Cardinality({i \in 1..Len(ms) : isRecent(ms[i], t)})]

\* The handlers: the two files after the request and the status answered.
\* POST /api/products
flatPostProduct(pf, mf, body, t) ==
    LET ps == readJSON(pf)
        newProduct ==
            [id |-> <<"product", t>>, lastModified |-> toISOString(t)] @@ body
    IN  [productsFile |-> writeJSON(Append(ps, newProduct)),
         movementsFile |-> mf, status |-> 201]

\* PATCH /api/products/:id
flatPatchProduct(pf, mf, id, body, t) ==
    LET ps == readJSON(pf)
        productIndex == findIndex(ps, id)
        patched == [lastModified |-> toISOString(t)] @@ body @@ ps[productIndex]
    IN  IF productIndex = 0
        THEN [productsFile |-> pf, movementsFile |-> mf, status |-> 404]
        ELSE [productsFile |-> writeJSON([ps EXCEPT ![productIndex] = patched]),
              movementsFile |-> mf, status |-> 200]

\* DELETE /api/products/:id
flatDeleteProduct(pf, mf, id) ==
    LET ps == readJSON(pf)
        filteredProducts == SelectSeq(ps, LAMBDA p : p.id # id)
    IN  IF Len(ps) = Len(filteredProducts)
        THEN [productsFile |-> pf, movementsFile |-> mf, status |-> 404]
        ELSE [productsFile |-> writeJSON(filteredProducts),
              movementsFile |-> mf, status |-> 200]

\* A movement handler that writes the new quantity and leaves lastModified.
flatPostMovement_StaleDate(pf, mf, body, t) ==
    LET ms == readJSON(mf)
        ps == readJSON(pf)
        newMovement ==
            [id |-> <<"movement", t>>, createdAt |-> toISOString(t)] @@ body
        productIndex == findIndex(ps, body.productId)
        quantityChange == IF body.type = "in" \/ body.type = "purchase"
                          THEN body.quantity ELSE -body.quantity
        sum == OrElse(ps[productIndex], "quantity", 0) + quantityChange
        updated == [quantity |-> IF 0 > sum THEN 0 ELSE sum] @@ ps[productIndex]
    IN  [productsFile |-> IF productIndex = 0 THEN pf
                          ELSE writeJSON([ps EXCEPT ![productIndex] = updated]),
         movementsFile |-> writeJSON(Append(ms, newMovement)),
         status |-> 201]

\* POST /api/stock-movements
flatPostMovement(pf, mf, body, t) ==
    LET ms == readJSON(mf)
        ps == readJSON(pf)
        newMovement ==
            [id |-> <<"movement", t>>, createdAt |-> toISOString(t)] @@ body
        productIndex == findIndex(ps, body.productId)
        quantityChange == IF body.type = "in" \/ body.type = "purchase"
                          THEN body.quantity ELSE -body.quantity
        sum == OrElse(ps[productIndex], "quantity", 0) + quantityChange
        updated == [quantity |-> IF 0 > sum THEN 0 ELSE sum,
                    lastModified |-> toISOString(t)] @@ ps[productIndex]
    IN  [productsFile |-> IF productIndex = 0 THEN pf
                          ELSE writeJSON([ps EXCEPT ![productIndex] = updated]),
         movementsFile |-> writeJSON(Append(ms, newMovement)),
         status |-> 201]

\* The ids in products.json, an id of no product, and an id that only a
\* request body can carry.
FlatIds == {readJSON(productsFile)[i].id : i \in 1..Len(readJSON(productsFile))}

UnknownFlatId == <<"product", -1>>

BodyId == <<"body", 0>>

\* Bodies of POST /api/products: without a quantity, at 0, and with a
\* quantity and a minStock.
FlatProductBodies ==
    {[name |-> "n"],
     [name |-> "n", quantity |-> 0],
     [name |-> "n", quantity |-> MaxInput, minStock |-> 1]}

\* Bodies of PATCH /api/products/:id: a quantity, a minStock, an id, a
\* lastModified before the server's start.
FlatUpdateBodies ==
    {[quantity |-> MaxInput], [minStock |-> 1], [id |-> BodyId],
     [lastModified |-> toISOString(-1)]}

\* Bodies of POST /api/stock-movements.
FlatMovementBodies ==
    [productId : FlatIds \cup {UnknownFlatId}, type : {"in", "out"},
     quantity : {1}]

FlatRespond(r, op, id, body) ==
    /\ requests < MaxSteps
    /\ requests' = requests + 1
    /\ productsFile' = r.productsFile
    /\ movementsFile' = r.movementsFile
    /\ last' = [op |-> op, status |-> r.status, id |-> id, body |-> body]
    /\ UNCHANGED <<products, stockMovements, now, uuids, failed, calls>>

\* The server has started on an empty data directory and has written [] to
\* both files.
InitFlat ==
    /\ productsFile = writeJSON(<<>>)
    /\ movementsFile = writeJSON(<<>>)
    /\ products = EmptyMap
    /\ stockMovements = EmptyMap
    /\ now = 0
    /\ uuids = 0
    /\ requests = 0
    /\ failed = 0
    /\ last = [op |-> "start", status |-> 0, id |-> UnknownFlatId,
               body |-> EmptyMap]
    /\ calls = <<>>

FlatPostProduct ==
    \E body \in FlatProductBodies :
        FlatRespond(flatPostProduct(productsFile, movementsFile, body, now),
                    "POST /api/products", UnknownFlatId, body)

FlatPatchProduct ==
    \E id \in FlatIds \cup {UnknownFlatId}, body \in FlatUpdateBodies :
        FlatRespond(flatPatchProduct(productsFile, movementsFile, id, body, now),
                    "PATCH /api/products/:id", id, body)

FlatDeleteProduct ==
    \E id \in FlatIds \cup {UnknownFlatId} :
        FlatRespond(flatDeleteProduct(productsFile, movementsFile, id),
                    "DELETE /api/products/:id", id, EmptyMap)

FlatPostMovement ==
    \E body \in FlatMovementBodies :
        FlatRespond(flatPostMovement(productsFile, movementsFile, body, now),
                    "POST /api/stock-movements", body.productId, body)

\* The clock advances by a millisecond or by a day.
Tick ==
    /\ requests < MaxSteps
    /\ requests' = requests + 1
    /\ \E d \in {1, DayMs} : now' = now + d
    /\ last' = [op |-> "tick", status |-> 0, id |-> UnknownFlatId,
                body |-> EmptyMap]
    /\ UNCHANGED <<products, stockMovements, productsFile, movementsFile,
                   uuids, failed, calls>>

NextFlat ==
    \/ FlatPostProduct
    \/ FlatPatchProduct
    \/ FlatDeleteProduct
    \/ FlatPostMovement
    \/ Tick

SpecFlat == InitFlat /\ [][NextFlat]_vars

----------------------------------------------------------------------------
(* The listings of MemStorage.  getProducts and getStockMovements read the *)
(* Maps and change nothing, so SpecLists starts from collections of every  *)
(* shape the mutators can leave behind and applies the two listings and    *)
(* the restart to them.  An update refreshes lastModified, so the products *)
(* carry their times in any order; a movement gets the clock at its        *)
(* creation and is never rewritten, so the movements carry theirs in       *)
(* insertion order.  A timestamp is a Date when the record was written by  *)
(* this process and a string when it was loaded from the file.             *)
(***************************************************************************)

MaxLen == 2          \* records in a collection at the start of SpecLists
MaxTime == 1         \* their times are 0..MaxTime

Stamps == {NewDate(t) : t \in 0..MaxTime} \cup {<<"string", t>> : t \in 0..MaxTime}

InitLists ==
    \E n, m \in 0..MaxLen :
      \E pt \in [1..n -> Stamps], mt \in [1..m -> Stamps] :
        /\ \A i, j \in 1..m : i < j => getTime(mt[i]) <= getTime(mt[j])
        /\ products =
             [id \in 1..n |->
                [id |-> id, name |-> "n", lastModified |-> pt[id],
                 minStock |-> Null, quantity |-> 0]]
        /\ stockMovements =
             [id \in (n + 1)..(n + m) |->
                [id |-> id, productId |-> 1, type |-> "add",
                 movementType |-> "purchase", quantity |-> 1,
                 unitPrice |-> Null, totalPrice |-> Null,
                 timestamp |-> mt[id - n]]]
        /\ productsFile = JsonFile(StringifyProducts(MapValues(products)))
        /\ movementsFile =
             JsonFile(StringifyMovements(MapValues(stockMovements)))
        /\ now = MaxTime
        /\ uuids = n + m
        /\ requests = 0
        /\ failed = 0
        /\ last = [op |-> "start", status |-> 0, ret |-> <<>>]
        /\ calls = <<>>

\* GET /api/products
GetProducts ==
    /\ last' = [op |-> "GET /api/products", status |-> 200,
                ret |-> getProducts(Request(NoFault))]
    /\ UNCHANGED <<products, stockMovements, productsFile, movementsFile,
                   now, uuids, requests, failed, calls>>

\* GET /api/stock-movements
GetStockMovements ==
    /\ last' = [op |-> "GET /api/stock-movements", status |-> 200,
                ret |-> getStockMovements(Request(NoFault))]
    /\ UNCHANGED <<products, stockMovements, productsFile, movementsFile,
                   now, uuids, requests, failed, calls>>

NextLists ==
    \/ GetProducts
    \/ GetStockMovements
    \/ Restart

SpecLists == InitLists /\ [][NextLists]_vars

----------------------------------------------------------------------------
(* MemStorage between its awaits.  A method of MemStorage runs without     *)
(* interruption until it awaits an operation of fs/promises (fs.mkdir in   *)
(* ensureDataDir, fs.writeFile, fs.readFile); what follows the await runs  *)
(* when the operation has completed, again up to the next such await.  The *)
(* operations of different calls complete in any order.  SpecAsync has one *)
(* action for the synchronous start of each route and one for the          *)
(* completion of each kind of operation together with the code that runs   *)
(* on it.  A file operation takes effect as a whole when it completes; no  *)
(* write fails; the clock stands still and last stays as it starts.        *)
(* calls[1] is the loadData() the constructor starts without awaiting it;  *)
(* the calls of the routes follow in the order they began and stay in      *)
(* calls when they have returned.  A call is                               *)
(*   op, id, body   the route, the product addressed, the parsed body;     *)
(*   pc             the operation awaited: "mkdir", "write", "read", or    *)
(*                  "done" once the call has returned;                     *)
(*   phase          which save or read of the method that is;              *)
(*   text           the text handed to fs.writeFile;                       *)
(*   movement       the id of the movement createStockMovement made;       *)
(*   newQuantity    that local of createStockMovement;                     *)
(*   loaded         what loadData parsed from products.json;               *)
(*   duringLoad     the call began before loadData had returned;           *)
(*   status         the status answered.                                   *)
(***************************************************************************)

PostedMovement == "POST /api/stock-movements"

MaxCalls == 2        \* requests and crashes in one run of SpecAsync

\* The store a synchronous stretch of code runs on.
Mem == Request(NoFault)

Loading == calls[1].pc # "done"

NewCall(op, id, body, phase) ==
    [op |-> op, id |-> id, body |-> body, pc |-> "mkdir", phase |-> phase,
     text |-> Null, movement |-> UnknownId, newQuantity |-> 0,
     loaded |-> Null, duringLoad |-> FALSE, status |-> 0]

\* this.loadData() of the constructor, up to the fs.mkdir of ensureDataDir.
LoadCall == NewCall("loadData", UnknownId, Null, "products")

\* The call has returned with that status.
Returned(c, status) == [c EXCEPT !.pc = "done", !.status = status]

AsyncProductBodies == {[name |-> Some("n"), quantity |-> Null, minStock |-> Null]}

AsyncUpdateBodies == {[quantity |-> 1]}

AsyncMovementBodies ==
    [productId : {SeedId}, type : {"add", "remove"}, movementType : {"sale"},
     quantity : {1}, unitPrice : {Null}, totalPrice : {Null}]

\* A route begins a call of the storage.
Begin(c) ==
    /\ requests < MaxCalls
    /\ requests' = requests + 1
    /\ calls' = Append(calls, [c EXCEPT !.duringLoad = Loading])
    /\ UNCHANGED <<productsFile, movementsFile, now, failed, last>>

\* The data directory holds the products.json an earlier run left; the
\* constructor has run.
InitAsync ==
    /\ \E q \in 0..MaxQuantity : productsFile = JsonFile(SeedProducts(q))
    /\ movementsFile = Absent
    /\ products = EmptyMap
    /\ stockMovements = EmptyMap
    /\ now = 0
    /\ uuids = 0
    /\ requests = 0
    /\ failed = 0
    /\ last = [op |-> "start"]
    /\ calls = <<LoadCall>>

\* POST /api/products: createProduct up to the fs.mkdir of saveProducts.
AsyncPostProduct ==
    \E body \in AsyncProductBodies :
        LET r == createProduct(Mem, body, now)
        IN  /\ Begin(NewCall("POST /api/products", r.uuids, body, "create"))
            /\ products' = r.products
            /\ uuids' = r.uuids
            /\ UNCHANGED stockMovements

\* PATCH /api/products/:id: updateProduct up to the fs.mkdir of saveProducts,
\* or to its return when the product is not there.
AsyncPatchProduct ==
    \E id \in DOMAIN products \cup {SeedId}, updates \in AsyncUpdateBodies :
        LET r == updateProduct(Mem, id, updates, now)
            c == NewCall("PATCH /api/products/:id", id, updates, "update")
        IN  /\ Begin(IF r.ret = Null THEN Returned(c, 404) ELSE c)
            /\ products' = r.products
            /\ UNCHANGED <<stockMovements, uuids>>

\* POST /api/stock-movements: createStockMovement up to the fs.mkdir of
\* saveMovements.
AsyncPostMovement ==
    \E body \in AsyncMovementBodies :
        LET r == createStockMovement(Mem, body, now)
            c == NewCall(PostedMovement, body.productId, body, "movements")
        IN  /\ Begin([c EXCEPT !.movement = r.uuids])
            /\ stockMovements' =
                 MapSet(stockMovements, r.uuids, r.stockMovements[r.uuids])
            /\ uuids' = r.uuids
            /\ UNCHANGED products

\* fs.mkdir of ensureDataDir has completed: loadData goes on to read
\* products.json; a save takes Array.from(map.values()) and hands its
\* JSON text to fs.writeFile.
EnsureDataDirDone ==
    \E c \in 1..Len(calls) :
        /\ calls[c].pc = "mkdir"
        /\ calls' =
             [calls EXCEPT ![c] =
                IF calls[c].op = "loadData" THEN [calls[c] EXCEPT !.pc = "read"]
                ELSE [calls[c] EXCEPT
                        !.pc = "write",
                        !.text = IF calls[c].phase = "movements"
                                 THEN saveMovements(Mem).movementsFile
                                 ELSE saveProducts(Mem).productsFile]]
        /\ UNCHANGED <<products, stockMovements, productsFile, movementsFile,
                       now, uuids, requests, failed, last>>

\* What createStockMovement does when saveMovements has returned: it reads
\* the product and, when there is one, runs updateProduct up to the
\* fs.mkdir of saveProducts.
afterSaveMovements(c) ==
    LET product == getProduct(Mem, c.body.productId)
        newQuantity == newQuantityOf(product[1], c.body)
    IN  IF product = Null
        THEN [products |-> products, call |-> Returned(c, 201)]
        ELSE [products |->
                 updateProduct(Mem, c.body.productId,
                               [quantity |-> newQuantity], now).products,
              call |-> [c EXCEPT !.pc = "mkdir", !.phase = "update",
                                 !.newQuantity = newQuantity]]

\* What a call does when saveProducts has returned: createStockMovement
\* goes on to the auto-delete, and deleteProduct saves when it deleted;
\* every other call returns.
afterSaveProducts(c) ==
    LET r == deleteProduct(Mem, c.body.productId)
    IN  IF /\ c.op = PostedMovement
           /\ c.phase = "update"
           /\ autoDelete(c.newQuantity, c.body)
        THEN [products |-> r.products,
              call |-> IF r.ret
                       THEN [c EXCEPT !.pc = "mkdir", !.phase = "delete"]
                       ELSE Returned(c, 201)]
        ELSE [products |-> products,
              call |-> Returned(c, IF c.op = "PATCH /api/products/:id"
                                   THEN 200 ELSE 201)]

\* fs.writeFile has completed: the file holds the text, and the call runs
\* on to its next await or to its return.
WriteFileDone ==
    \E c \in 1..Len(calls) :
        /\ calls[c].pc = "write"
        /\ LET written == [calls[c] EXCEPT !.text = Null]
               r == IF calls[c].phase = "movements"
                    THEN afterSaveMovements(written)
                    ELSE afterSaveProducts(written)
           IN  /\ products' = r.products
               /\ calls' = [calls EXCEPT ![c] = r.call]
        /\ IF calls[c].phase = "movements"
           THEN movementsFile' = calls[c].text /\ UNCHANGED productsFile
           ELSE productsFile' = calls[c].text /\ UNCHANGED movementsFile
        /\ UNCHANGED <<stockMovements, now, uuids, requests, failed, last>>

\* fs.readFile of loadData has completed: the records parsed are set into
\* the Map, over what it holds; a file that is absent leaves it alone.
ReadFileDone ==
    \E c \in 1..Len(calls) :
        /\ calls[c].pc = "read"
        /\ IF calls[c].phase = "products"
           THEN /\ products' = loadData(Mem).products
                /\ calls' = [calls EXCEPT ![c].phase = "movements",
                                          ![c].loaded = ReadArray(productsFile)]
                /\ UNCHANGED stockMovements
           ELSE /\ stockMovements' = loadData(Mem).stockMovements
                /\ calls' = [calls EXCEPT ![c] = Returned(calls[c], 0)]
                /\ UNCHANGED products
        /\ UNCHANGED <<productsFile, movementsFile, now, uuids, requests,
                       failed, last>>

\* The process stops where it is and is started again: the calls in flight
\* are gone with the Maps, the files are as they were, and the constructor
\* of the new process starts loadData().
Crash ==
    /\ requests < MaxCalls
    /\ requests' = requests + 1
    /\ products' = EmptyMap
    /\ stockMovements' = EmptyMap
    /\ calls' = <<LoadCall>>
    /\ UNCHANGED <<productsFile, movementsFile, now, uuids, failed, last>>

NextAsync ==
    \/ AsyncPostProduct
    \/ AsyncPatchProduct
    \/ AsyncPostMovement
    \/ EnsureDataDirDone
    \/ WriteFileDone
    \/ ReadFileDone
    \/ Crash

SpecAsync == InitAsync /\ [][NextAsync]_vars

----------------------------------------------------------------------------
(* The movement types on their two ways to a quantity.  SpecTypes applies  *)
(* the same typed movements to the same product held by both programs:     *)
(* products.json is the file of the flat-file server, which interprets the *)
(* type itself; products is the Map of MemStorage, which gets the type the *)
(* movement modal (AddMovementModal) makes of it.  The clock advances by a *)
(* millisecond with every movement.                                        *)
(***************************************************************************)

MaxMoves == 2        \* typed movements in one run of SpecTypes

SemanticTypes ==
    {"sale", "purchase", "adjustment", "return", "in", "out", "add", "remove"}

\* data.type === "sale" || data.type === "adjustment" ? "remove" : "add"
modalType(type) ==
    IF type = "sale" \/ type = "adjustment" THEN "remove" ELSE "add"

FlatSeedId == <<"product", 0>>

\* The same product as SeedProducts(q), as the flat-file server stores it.
FlatSeedProducts(q) ==
    <<[id |-> FlatSeedId, name |-> "n", quantity |-> q,
       lastModified |-> toISOString(0)]>>

InitTypes ==
    /\ \E q \in 0..MaxQuantity :
          /\ productsFile = writeJSON(FlatSeedProducts(q))
          /\ products = SetAll(EmptyMap, SeedProducts(q))
    /\ movementsFile = writeJSON(<<>>)
    /\ stockMovements = EmptyMap
    /\ now = 0
    /\ uuids = 0
    /\ requests = 0
    /\ failed = 0
    /\ last = [op |-> "start", type |-> "", quantity |-> 0]
    /\ calls = <<>>

\* One movement of a type, recorded by the flat-file server as it is and
\* by MemStorage.createStockMovement as the modal sends it.
TypedMovement ==
    \E type \in SemanticTypes, quantity \in 1..MaxInput :
        LET r == createStockMovement(
                     Mem,
                     [productId |-> SeedId, type |-> modalType(type),
                      movementType |-> Null, quantity |-> quantity,
                      unitPrice |-> Null, totalPrice |-> Null],
                     now)
            f == flatPostMovement(
                     productsFile, movementsFile,
                     [productId |-> FlatSeedId, type |-> type,
                      quantity |-> quantity],
                     now)
        IN  /\ requests < MaxMoves
            /\ requests' = requests + 1
            /\ products' = r.products
            /\ stockMovements' = r.stockMovements
            /\ uuids' = r.uuids
            /\ productsFile' = f.productsFile
            /\ movementsFile' = f.movementsFile
            /\ now' = now + 1
            /\ last' = [op |-> PostedMovement, type |-> type,
                        quantity |-> quantity]
            /\ UNCHANGED <<failed, calls>>

NextTypes == TypedMovement

SpecTypes == InitTypes /\ [][NextTypes]_vars

----------------------------------------------------------------------------
(* Vocabulary of the properties. *)

\* The documented vocabularies of a movement's type and movementType.
Polarities == {"add", "remove"}

ReasonTypes == {"sale", "purchase", "adjustment", "return"}

\* The clamped update of the specification: max(0, q + d).
Clamp(q, d) == IF q + d < 0 THEN 0 ELSE q + d

\* The signed delta of a movement: +quantity when it increases the stock,
\* -quantity when it decreases it.
SignedDelta(type, quantity) == IF type = "add" THEN quantity ELSE -quantity

\* The step served a movement request that passed validation and met no
\* write failure, against a product that existed.
MovementApplied ==
    /\ last'.op = PostedMovement
    /\ last'.status = 201
    /\ last'.prior # Null

\* The minStock of the data model: 5 when the product has none.
MinStockDefault == 5

MinStockOf(p) == IF p.minStock = Null THEN MinStockDefault ELSE p.minStock[1]

\* The sum of the quantities of the products stored under ids.
RECURSIVE TotalOf(_)
TotalOf(ids) ==
    IF ids = {} THEN 0
    ELSE LET id == CHOOSE x \in ids : TRUE
         IN  products[id].quantity + TotalOf(ids \ {id})

----------------------------------------------------------------------------
(* C1: in every reachable state every product in the store has             *)
(* quantity >= 0.                                                          *)
C1_QuantityNonNegative ==
    \A id \in DOMAIN products : products[id].quantity >= 0

(* C2: sequential fold law.  Every movement recorded against a product     *)
(* takes its quantity q to max(0, q + d), d the movement's signed delta,   *)
(* so that a sequence of movements ends at foldLeft(q0, max(0, q + d)); a  *)
(* product the movement removed has no quantity left to compare.           *)
C2_FoldLaw ==
    [][MovementApplied /\ last'.id \in DOMAIN products'
         => products'[last'.id].quantity =
              Clamp(last'.prior[1].quantity,
                    SignedDelta(last'.body.type[1], last'.body.quantity[1]))]_vars

C4_UnknownProduct ==
    [][/\ last'.op = PostedMovement
       /\ last'.prior = Null
       /\ last'.body.type # Null
       /\ last'.body.movementType # Null
       /\ last'.body.quantity # Null
       =>
       /\ products' = products
       /\ productsFile' = productsFile
       /\ last'.fault = NoFault =>
            /\ last'.status = 201
            /\ \E id \in DOMAIN stockMovements' \ DOMAIN stockMovements :
                 /\ DOMAIN stockMovements' = DOMAIN stockMovements \cup {id}
                 /\ stockMovements'[id].productId = last'.id
                 /\ stockMovements'[id].quantity = last'.body.quantity[1]
                 /\ \A m \in DOMAIN stockMovements :
                      stockMovements'[m] = stockMovements[m]]_vars

\* A movement against an unknown id was recorded while a product existed.
C4_Witness ==
    /\ last.op = PostedMovement
    /\ last.status = 201
    /\ last.id = UnknownId
    /\ DOMAIN products # {}
    /\ \E id \in DOMAIN stockMovements :
         stockMovements[id].productId = UnknownId

(* C5: a movement request whose quantity is <= 0, or whose type or         *)
(* movementType is outside its vocabulary, is answered with a validation   *)
(* failure and changes neither the products nor the movement log.          *)
C5_ValidationRejects ==
    [][/\ last'.op = PostedMovement
       /\ \/ last'.body.quantity = Null
          \/ last'.body.quantity[1] <= 0
          \/ last'.body.type = Null
          \/ last'.body.type[1] \notin Polarities
          \/ last'.body.movementType = Null
          \/ last'.body.movementType[1] \notin ReasonTypes
       =>
       /\ last'.status = 400
       /\ products' = products
       /\ stockMovements' = stockMovements]_vars

(* C6: the movement log is append-only.  No request (a movement, a product *)
(* create, update or delete, an auto-removal) removes a recorded movement  *)
(* or changes one of its fields; the movements of a deleted product stay.  *)
C6_AppendOnly ==
    [][last'.op # "restart" =>
         \A id \in DOMAIN stockMovements :
            /\ id \in DOMAIN stockMovements'
            /\ stockMovements'[id] = stockMovements[id]]_vars

\* A product was deleted and a movement that refers to it is in the log.
C6_Witness ==
    /\ last.op = "DELETE /api/products/:id"
    /\ last.status = 204
    /\ last.id \notin DOMAIN products
    /\ \E id \in DOMAIN stockMovements :
         stockMovements[id].productId = last.id

(* C7: when the save step of a mutating request fails, the request is      *)
(* reported as failed and the products and the movement log in memory are  *)
(* what they were before the request.                                      *)
C7_RollbackOnSaveFailure ==
    [][last'.fault # NoFault =>
         /\ last'.status = 500
         /\ products' = products
         /\ stockMovements' = stockMovements]_vars

(* C8: when a mutating request is answered as successful, the file of      *)
(* every collection it changed holds that collection as it now is.         *)
C8_FlushedBeforeAck ==
    [][/\ last'.op \in {"POST /api/products", "PATCH /api/products/:id",
                        "DELETE /api/products/:id", PostedMovement}
       /\ last'.status \in {200, 201, 204}
       =>
       /\ products' # products =>
            /\ productsFile'.kind = "json"
            /\ Len(productsFile'.data) = Cardinality(DOMAIN products')
            /\ \A i \in 1..Len(productsFile'.data) :
                 LET p == productsFile'.data[i]
                 IN  /\ p.id \in DOMAIN products'
                     /\ p.quantity = products'[p.id].quantity
                     /\ p.minStock = products'[p.id].minStock
                     /\ p.lastModified[2] = products'[p.id].lastModified[2]
       /\ stockMovements' # stockMovements =>
            /\ movementsFile'.kind = "json"
            /\ Len(movementsFile'.data) = Cardinality(DOMAIN stockMovements')
            /\ \A i \in 1..Len(movementsFile'.data) :
                 LET m == movementsFile'.data[i]
                 IN  /\ m.id \in DOMAIN stockMovements'
                     /\ m.productId = stockMovements'[m.id].productId
                     /\ m.type = stockMovements'[m.id].type
                     /\ m.quantity = stockMovements'[m.id].quantity]_vars

\* A movement against an existing product was acknowledged: both files were
\* written, the log and the product's new quantity are in them.
C8_Witness ==
    /\ last.op = PostedMovement
    /\ last.status = 201
    /\ last.prior # Null
    /\ last.id \in DOMAIN products
    /\ products[last.id].quantity # last.prior[1].quantity
    /\ productsFile.kind = "json"
    /\ movementsFile.kind = "json"
    /\ Len(movementsFile.data) = 2

(* C9: round trip.  Saving the products and loading them again gives the   *)
(* same ids with the same field values, and so does saving and loading     *)
(* the movements.                                                          *)
C9_RoundTrip ==
    LET written == saveMovements(saveProducts(Request(NoFault)))
        loaded == loadData([written EXCEPT !.products = EmptyMap,
                                           !.stockMovements = EmptyMap])
    IN  /\ loaded.products = products
        /\ loaded.stockMovements = stockMovements

(* C10: after a start, a collection whose file is absent is empty, and the *)
(* other collection holds the records of its file, whichever of the two    *)
(* files is the absent one.                                                *)
C10_AbsentFileLoadsEmpty ==
    last.op = "restart" =>
      /\ productsFile = Absent => products = EmptyMap
      /\ movementsFile = Absent => stockMovements = EmptyMap
      /\ productsFile.kind = "json" =>
           /\ DOMAIN products =
                {productsFile.data[i].id : i \in 1..Len(productsFile.data)}
           /\ \A i \in 1..Len(productsFile.data) :
                products[productsFile.data[i].id] = productsFile.data[i]
      /\ movementsFile.kind = "json" =>
           /\ DOMAIN stockMovements =
                {movementsFile.data[i].id : i \in 1..Len(movementsFile.data)}
           /\ \A i \in 1..Len(movementsFile.data) :
                stockMovements[movementsFile.data[i].id] = movementsFile.data[i]

\* A start with products.json absent and a movement in stock_movements.json.
C10_Witness ==
    /\ last.op = "restart"
    /\ productsFile = Absent
    /\ movementsFile.kind = "json"
    /\ products = EmptyMap
    /\ stockMovements # EmptyMap

(* C11: in every state of the product store getStats returns               *)
(* totalProducts = the number of products, totalStock = the sum of their   *)
(* quantities, lowStock = the number of products with                      *)
(* 0 < quantity <= minStock and outOfStock = the number with quantity 0.   *)
C11_StatsCorrect ==
    LET stats == getStats(Request(NoFault))
        ids == DOMAIN products
    IN  /\ stats.totalProducts = Cardinality(ids)
        /\ stats.totalStock = TotalOf(ids)
        /\ stats.lowStock =
             Cardinality({id \in ids :
                            /\ 0 < products[id].quantity
                            /\ products[id].quantity <= MinStockOf(products[id])})
        /\ stats.outOfStock =
             Cardinality({id \in ids : products[id].quantity = 0})

(* C12: the stats value recentMovements is the number of movements in the  *)
(* log whose timestamp lies in the 24 hours that end at the time of the    *)
(* evaluation; a movement older than 24 hours is not counted.              *)
C12_RecentMovements ==
    LET stats == flatStats(productsFile, movementsFile, now)
        log == readJSON(movementsFile)
    IN  stats.recentMovements =
          Cardinality({i \in 1..Len(log) :
                         /\ now - DayMs <= log[i].createdAt[2]
                         /\ log[i].createdAt[2] <= now})

\* The log holds a movement older than 24 hours, one made exactly 24 hours
\* ago and the stats count the second and not the first.
C12_Witness ==
    LET log == readJSON(movementsFile)
    IN  /\ \E i \in 1..Len(log) : log[i].createdAt[2] < now - DayMs
        /\ \E i \in 1..Len(log) : log[i].createdAt[2] = now - DayMs
        /\ flatStats(productsFile, movementsFile, now).recentMovements = 1

(* C13: a create that succeeds stores the product with quantity 0 when the *)
(* request has no quantity or a negative one and with the quantity of the  *)
(* request otherwise, and with minStock 5 when the request has no minStock *)
(* and with the minStock of the request otherwise.                         *)
C13_CreateDefaults ==
    [][last'.op = "POST /api/products" /\ last'.status = 201 =>
         \E id \in DOMAIN products' \ DOMAIN products :
            LET p == products'[id]
                body == last'.body
            IN  /\ p.quantity = IF body.quantity = Null THEN 0
                                ELSE IF body.quantity[1] < 0 THEN 0
                                     ELSE body.quantity[1]
                /\ p.minStock = IF body.minStock = Null
                                THEN Some(MinStockDefault)
                                ELSE body.minStock]_vars

(* C14: an update of an existing product leaves every field the request    *)
(* does not supply as it was and sets every field the request supplies to  *)
(* the value supplied; an update of an unknown id is answered not-found    *)
(* and changes neither the products, nor the movement log, nor the files.  *)
C14_UpdateMerges ==
    [][last'.op = "PATCH /api/products/:id" =>
         IF last'.prior = Null
         THEN /\ last'.status = 404
              /\ products' = products
              /\ stockMovements' = stockMovements
              /\ productsFile' = productsFile
              /\ movementsFile' = movementsFile
         ELSE /\ last'.id \in DOMAIN products'
              /\ \A f \in {"id", "name", "quantity", "minStock"} :
                   products'[last'.id][f] =
                     IF f \in DOMAIN last'.body THEN last'.body[f]
                     ELSE last'.prior[1][f]]_vars

\* An update set the quantity of a product and kept the minStock that an
\* earlier update had given it.
C14_Witness ==
    /\ last.op = "PATCH /api/products/:id"
    /\ last.status = 200
    /\ DOMAIN last.body = {"quantity"}
    /\ products[last.id].quantity = last.body.quantity
    /\ products[last.id].quantity # last.prior[1].quantity
    /\ products[last.id].minStock # Null
    /\ products[last.id].minStock = last.prior[1].minStock

(* C15: the id of a product is immutable.  No update, whatever fields the  *)
(* request supplies, and no movement changes the id a product was given at *)
(* its creation: the records of the product collection keep their ids.     *)
C15_IdImmutable ==
    [][last'.op \in {"PATCH /api/products/:id", PostedMovement} =>
         LET before == readJSON(productsFile)
             after == readJSON(productsFile')
         IN  /\ Len(after) = Len(before)
             /\ \A i \in 1..Len(before) : after[i].id = before[i].id]_vars

(* C16: identifiers are unique.  In every reachable state no two products  *)
(* have the same id and no two movements have the same id, also when two   *)
(* of them were created at the same value of the clock.                    *)
C16_UniqueIds ==
    LET ps == readJSON(productsFile)
        ms == readJSON(movementsFile)
    IN  /\ \A i, j \in 1..Len(ps) : i # j => ps[i].id # ps[j].id
        /\ \A i, j \in 1..Len(ms) : i # j => ms[i].id # ms[j].id

(* C17: delete(id) returns true exactly when a product with that id        *)
(* existed before the call.  After it returned true get(id) finds nothing  *)
(* and every other product is as it was; when it returned false the        *)
(* products and products.json are as they were.  (The route answers 204    *)
(* for true and 404 for false.)                                            *)
C17_Delete ==
    [][last'.op = "DELETE /api/products/:id" =>
         /\ last'.fault = NoFault =>
              /\ last'.status \in {204, 404}
              /\ last'.status = 204 <=> last'.prior # Null
         /\ last'.status = 204 =>
              /\ last'.prior # Null
              /\ getProduct([products |-> products'], last'.id) = Null
              /\ \A other \in DOMAIN products \ {last'.id} :
                   /\ other \in DOMAIN products'
                   /\ products'[other] = products[other]
         /\ last'.status = 404 =>
              /\ last'.prior = Null
              /\ products' = products
              /\ productsFile' = productsFile]_vars

\* A delete returned true for one of two products: the other one is left.
C17_Witness ==
    /\ last.op = "DELETE /api/products/:id"
    /\ last.status = 204
    /\ last.prior # Null
    /\ last.id \notin DOMAIN products
    /\ DOMAIN products # {}

\* list holds every record of map once, newest first by the time in field.
IsListing(list, map, field) ==
    /\ Len(list) = Cardinality(DOMAIN map)
    /\ \A i \in 1..Len(list) :
         /\ list[i].id \in DOMAIN map
         /\ list[i] = map[list[i].id]
    /\ \A id \in DOMAIN map :
         Cardinality({i \in 1..Len(list) : list[i].id = id}) = 1
    /\ \A i, j \in 1..Len(list) :
         i < j => list[i][field][2] >= list[j][field][2]

(* C18: list() returns all the products, each once, ordered by             *)
(* lastModified descending, and listMovements() all the movements, each    *)
(* once, ordered by timestamp descending, also after a restart has         *)
(* reloaded the collections.                                               *)
C18_ListsOrdered ==
    /\ last.op = "GET /api/products" =>
         IsListing(last.ret, products, "lastModified")
    /\ last.op = "GET /api/stock-movements" =>
         IsListing(last.ret, stockMovements, "timestamp")

\* After a restart the products were listed: the one inserted second is
\* the newer one and comes first.
C18_Witness ==
    /\ last.op = "GET /api/products"
    /\ requests > 0
    /\ Len(last.ret) = 2
    /\ last.ret[1].id > last.ret[2].id
    /\ last.ret[1].lastModified[2] > last.ret[2].lastModified[2]
    /\ last.ret[1].lastModified[1] = "string"

(* C19: every movement in the log that has a unitPrice has a totalPrice,   *)
(* and it is unitPrice * quantity; a movement without a unitPrice has no   *)
(* totalPrice.                                                             *)
C19_TotalPrice ==
    \A id \in DOMAIN stockMovements :
       LET m == stockMovements[id]
       IN  IF m.unitPrice = Null THEN m.totalPrice = Null
           ELSE /\ m.totalPrice # Null
                /\ m.totalPrice[1] = m.unitPrice[1] * m.quantity

(* C20: a create-movement request that supplies a productId, a positive    *)
(* quantity and a valid polarity (type), or a semantic type (movementType) *)
(* in its place, and leaves the optional fields out, is accepted: it is    *)
(* answered with the created movement, which is in the log.                *)
C20_MinimalMovementAccepted ==
    [][/\ last'.op = PostedMovement
       /\ last'.fault = NoFault
       /\ last'.body.quantity # Null
       /\ last'.body.quantity[1] > 0
       /\ \/ last'.body.type # Null /\ last'.body.type[1] \in Polarities
          \/ /\ last'.body.movementType # Null
             /\ last'.body.movementType[1] \in ReasonTypes
       /\ last'.body.unitPrice = Null
       /\ last'.body.totalPrice = Null
       =>
       /\ last'.status = 201
       /\ \E id \in DOMAIN stockMovements' \ DOMAIN stockMovements :
            /\ stockMovements'[id].productId = last'.id
            /\ stockMovements'[id].quantity = last'.body.quantity[1]]_vars

(* C21: ledger invariant.  The quantity of every product that exists is    *)
(* the fold, through the clamped update q -> max(0, q + delta), of the     *)
(* movements in the log that reference it.  Step by step: a request that   *)
(* keeps a product changes its quantity by exactly the clamped updates of  *)
(* the movements the request appends for it, and by nothing when it        *)
(* appends none, whether the request is a create, an update, a delete or   *)
(* a movement.                                                             *)
C21_LedgerInvariant ==
    [][last'.op # "restart" =>
         \A id \in DOMAIN products \cap DOMAIN products' :
            LET appended == {m \in DOMAIN stockMovements' \ DOMAIN stockMovements :
                               stockMovements'[m].productId = id}
                q == products[id].quantity
            IN  IF appended = {} THEN products'[id].quantity = q
                ELSE \E m \in appended :
                        products'[id].quantity =
                          Clamp(q, SignedDelta(stockMovements'[m].type,
                                               stockMovements'[m].quantity))]_vars

(* C22: every mutation of a product (its creation, an update of its        *)
(* fields, a change of its quantity by a movement) sets the product's      *)
(* lastModified to the time of the mutation; a product's lastModified      *)
(* never decreases and is never later than the clock.                      *)
C22_LastModified ==
    [][LET before == readJSON(productsFile)
           after == readJSON(productsFile')
           touched == {i \in 1..Len(before) : before[i].id = last'.id}
       IN  /\ last'.op = "POST /api/products" =>
                /\ Len(after) = Len(before) + 1
                /\ after[Len(after)].lastModified[2] = now'
           /\ last'.op \in {"PATCH /api/products/:id", PostedMovement}
              /\ touched # {} =>
                after[Min(touched)].lastModified[2] = now'
           /\ last'.op # "DELETE /api/products/:id" =>
                \A i \in 1..Len(before) :
                   /\ i <= Len(after)
                   /\ after[i].lastModified[2] >= before[i].lastModified[2]
           /\ \A i \in 1..Len(after) : after[i].lastModified[2] <= now']_vars

\* A movement changed the quantity of a product that was created at an
\* earlier time: the product carries the time of the movement.
C22_Witness ==
    LET ps == readJSON(productsFile)
    IN  /\ last.op = PostedMovement
        /\ now > 0
        /\ \E i \in 1..Len(ps) :
             /\ ps[i].id = last.id
             /\ ps[i].id[2] < now
             /\ ps[i].lastModified[2] = now

\* The ids of the records a file holds.
IdsIn(file) == {readJSON(file)[i].id : i \in 1..Len(readJSON(file))}

\* The calls of POST /api/stock-movements that began when loadData had
\* returned.
MovementCalls ==
    {c \in 1..Len(calls) : calls[c].op = PostedMovement /\ ~calls[c].duringLoad}

(* C23: within one recordMovement the movement is appended to the log and  *)
(* flushed only after the quantity update was applied to the product: no   *)
(* state has the movement of a call in the log, or in the movements file,  *)
(* while the product it references is there and that call has not yet      *)
(* applied its quantity.                                                   *)
C23_MovementAfterQuantity ==
    \A c \in MovementCalls :
       /\ calls[c].id \in DOMAIN products
       /\ \/ calls[c].movement \in DOMAIN stockMovements
          \/ calls[c].movement \in IdsIn(movementsFile)
       => calls[c].phase # "movements"

\* The movement calls that have applied their quantity to the product.
Applied == {c \in MovementCalls : calls[c].phase # "movements"}

\* The quantities that the clamped updates of the calls in S, applied one
\* after the other in some order, make of q.
RECURSIVE Serial(_, _)
Serial(q, S) ==
    IF S = {} THEN {q}
    ELSE UNION {Serial(Clamp(q, SignedDelta(calls[c].body.type,
                                            calls[c].body.quantity)),
                       S \ {c}) : c \in S}

\* Every call since the start is a movement call made after the load.
OnlyMovementCalls == Len(calls) = 1 + Cardinality(MovementCalls)

(* C24: concurrent recordMovement calls against the same product lose no   *)
(* update: whatever the calls overlap, the product's quantity is what the  *)
(* clamped updates of the calls that have applied theirs make of the       *)
(* loaded quantity when applied one after the other in some order.         *)
C24_NoLostUpdate ==
    /\ OnlyMovementCalls
    /\ SeedId \in DOMAIN products
    => products[SeedId].quantity
         \in Serial(SetAll(EmptyMap, calls[1].loaded[1])[SeedId].quantity,
                    Applied)

\* Two calls in flight at once have both applied their quantity, an add
\* and a remove, and the product is there.
C24_Witness ==
    /\ OnlyMovementCalls
    /\ SeedId \in DOMAIN products
    /\ \E a, b \in Applied :
          /\ calls[a].pc # "done" /\ calls[b].pc # "done"
          /\ calls[a].body.type = "add" /\ calls[b].body.type = "remove"

\* The record with that id in a listing, as a set of at most one record.
Listed(list, id) == {list[i] : i \in {j \in 1..Len(list) : list[j].id = id}}

(* C25: a read served while a recordMovement is in flight sees the state   *)
(* before the call or the state after it: GET /api/stock-movements never   *)
(* lists the movement while GET /api/products lists the product with the   *)
(* quantity not yet updated, and GET /api/products never lists at quantity *)
(* 0 a product that the call is about to remove.                           *)
C25_ReadsSeeNoIntermediate ==
    LET listedProducts == getProducts(Mem)
        listedMovements == getStockMovements(Mem)
    IN  \A c \in MovementCalls :
           calls[c].pc # "done" =>
             /\ ~ /\ Listed(listedMovements, calls[c].movement) # {}
                  /\ Listed(listedProducts, calls[c].id) # {}
                  /\ calls[c].phase = "movements"
             /\ ~ /\ calls[c].phase = "update"
                  /\ autoDelete(calls[c].newQuantity, calls[c].body)
                  /\ \E p \in Listed(listedProducts, calls[c].id) :
                        p.quantity = 0

(* C26: the auto-removal deletes a product only when its quantity is 0 at  *)
(* the moment of the deletion: a step of a running server that takes a     *)
(* product out of the Map takes out a product whose quantity is 0, so      *)
(* stock added or set by another call since the write of 0 is not deleted. *)
C26_DeletesOnlyAtZero ==
    [][calls' # <<LoadCall>> =>
         \A id \in DOMAIN products \ DOMAIN products' :
            products[id].quantity = 0]_vars

(* C27: a mutating operation issued before loadData has finished loses no  *)
(* persisted data: when a write of such a call completes, every record the *)
(* file held before is still in it (but the product that call has just     *)
(* auto-removed); and no record in memory is replaced by a loaded one     *)
(* with other contents.                                                    *)
C27_EarlyCallKeepsPersisted ==
    [][requests' = requests =>
         /\ \A c \in 1..Len(calls) :
               /\ calls[c].duringLoad
               /\ calls[c].pc = "write"
               /\ calls'[c].pc # "write"
               => /\ IdsIn(movementsFile) \subseteq IdsIn(movementsFile')
                  /\ IdsIn(productsFile)
                       \ (IF calls[c].phase = "delete" THEN {calls[c].id}
                          ELSE {})
                       \subseteq IdsIn(productsFile')
         /\ calls[1].pc = "read" /\ calls'[1] # calls[1] =>
               /\ \A id \in DOMAIN products :
                     StringifyProduct(products'[id])
                       = StringifyProduct(products[id])
               /\ \A id \in DOMAIN stockMovements :
                     StringifyMovement(stockMovements'[id])
                       = StringifyMovement(stockMovements[id])]_vars

(* C28: however the writes of overlapping saveProducts / saveMovements     *)
(* calls are ordered, once every call begun after the load has returned    *)
(* each file holds the collection that is in memory: the snapshot of an    *)
(* older state is never the one that stays.                                *)
C28_FilesMatchMemory ==
    (\A c \in 1..Len(calls) : calls[c].pc = "done" /\ ~calls[c].duringLoad)
    => /\ readJSON(productsFile) = StringifyProducts(MapValues(products))
       /\ readJSON(movementsFile) =
            StringifyMovements(MapValues(stockMovements))

(* C29: when the process stops during a recordMovement against an existing *)
(* product, the files it is restarted from hold the state before the call  *)
(* (the old quantity, no movement) or the state after it (the movement,    *)
(* and the new quantity or no product when it was auto-removed): never the *)
(* movement with the quantity unchanged, nor the changed quantity without  *)
(* the movement.  Stated for a crash with that call alone in flight.       *)
C29_CrashAtomic ==
    [][/\ requests' # requests
       /\ Len(calls') = 1
       /\ Len(calls) = 2
       /\ MovementCalls = {2}
       /\ calls[2].pc # "done"
       /\ calls[1].loaded # Null
       /\ SeedId \in DOMAIN SetAll(EmptyMap, calls[1].loaded[1])
       => LET onDisk == SetAll(EmptyMap, readJSON(productsFile'))
              q == SetAll(EmptyMap, calls[1].loaded[1])[SeedId].quantity
              newQuantity == Clamp(q, SignedDelta(calls[2].body.type,
                                                  calls[2].body.quantity))
              recorded == calls[2].movement \in IdsIn(movementsFile')
          IN  \/ /\ ~recorded
                 /\ SeedId \in DOMAIN onDisk
                 /\ onDisk[SeedId].quantity = q
              \/ /\ recorded
                 /\ IF newQuantity = 0 /\ calls[2].body.type = "remove"
                    THEN SeedId \notin DOMAIN onDisk
                    ELSE /\ SeedId \in DOMAIN onDisk
                         /\ onDisk[SeedId].quantity = newQuantity]_vars

(* C30: a movement type has one polarity wherever it is interpreted: after *)
(* the same typed movements from the same starting quantity, the product   *)
(* has the same quantity in the flat-file server's products.json and,      *)
(* while MemStorage still holds it, in MemStorage's Map.                   *)
C30_SamePolarity ==
    SeedId \in DOMAIN products =>
        products[SeedId].quantity
          = readJSON(productsFile)[findIndex(readJSON(productsFile),
                                             FlatSeedId)].quantity

====
